---- MODULE Spec2Model ----
(***************************************************************************)
(* Model of src/services/ai.py: EnergyProfilerClient and the script under  *)
(* `if __name__ == "__main__"`.  The program is one sequential thread; its *)
(* position is pc.  The remote assistant service is the environment: it    *)
(* hands out identifiers, may reject any call, and drives the status of    *)
(* the run that run_thread polls.                                          *)
(***************************************************************************)
EXTENDS Integers, Sequences, FiniteSets, TLC

\* ---------------------------------------------------------------- bounds
\* Largest number of runs.retrieve calls explored in one invocation.
MaxPolls == 3
\* Longest message collection the remote returns from messages.list.
MaxMsgs == 2

\* ------------------------------------------------------- program constants
\* time.sleep(10)
SleepSeconds == 10
\* the loop's exit literal
Completed == "completed"
\* print('Final result:')
FinalHeader == "Final result:"

\* ------------------------------------------------ what the remote returns
FileIds == {"f1"}
AssistantIds == {"a1"}
ThreadIds == {"t1"}
RunIds == {"r1", "r2"}
\* run.status values the service reports
Statuses == {"queued", "in_progress", "completed", "failed", "cancelled"}
\* messages the thread may hold when it is listed
MessagePool == {[role |-> "assistant", content |-> "summary"],
                [role |-> "user", content |-> "Create an infographic"]}

None == "none"
NoRun == [id |-> None, status |-> None]

VARIABLES
  pc,            \* position of the script
  environ,       \* OPENAI_API_KEY in os.environ
  dotenv,        \* OPENAI_API_KEY supplied by a local .env file
  data_file,     \* data/energy_data.txt can be opened
  file,          \* file.id
  assistant,     \* assistant.id
  thread,        \* thread.id
  run,           \* local `run` of run_thread
  created,       \* the record runs.create answered with
  final_run,     \* what run_thread returned
  messages,      \* messages.data
  remoteStatus,  \* status of the run on the service
  calls,         \* remote calls issued, in order
  fetched,       \* records returned by runs.retrieve, in order
  slept,         \* seconds spent in time.sleep
  stdout,        \* lines printed
  error          \* the exception that ended the script

vars == <<pc, environ, dotenv, data_file, file, assistant, thread, run,
          created, final_run, messages, remoteStatus, calls, fetched, slept, stdout,
          error>>

\* One remote request as the client library receives it.
Call(op, thread_id, assistant_id, run_id, file_ids, ok) ==
  [op |-> op, thread_id |-> thread_id, assistant_id |-> assistant_id,
   run_id |-> run_id, file_ids |-> file_ids, ok |-> ok]

\* Collections of at most MaxMsgs messages, the empty one included.
MessageLists ==
  UNION {[1..n -> MessagePool] : n \in 0..MaxMsgs}

\* A print that shows only the text of the message.
StrContentOnly(m) == m.content

\* print(x) of a message record: str() of the whole record.
Str(m) == "{'role': '" \o m.role \o "', 'content': '" \o m.content \o "'}"

\* A handler that swallows the exception and tries the statement again.
RaiseRetried(e) ==
  /\ pc' = pc
  /\ error' = e

\* An uncaught exception: nothing catches it, the script ends.
Raise(e) ==
  /\ pc' = "aborted"
  /\ error' = e

\* The script with the message posted before its thread and file exist.
ScriptMessageFirst == <<"init", "create_message", "create_file",
                        "create_assistant", "create_thread", "run_create",
                        "get_messages", "print_header", "print_result", "done">>

\* The statements of the script, in program order.
Script == <<"init", "create_file", "create_assistant", "create_thread",
            "create_message", "run_create", "get_messages", "print_header",
            "print_result", "done">>

\* The statement that follows statement s of the script.
After(s) == Script[(CHOOSE i \in 1..Len(Script) : Script[i] = s) + 1]

Init ==
  /\ pc = "init"
  /\ environ \in BOOLEAN
  /\ dotenv \in BOOLEAN
  /\ data_file \in BOOLEAN
  /\ file = None
  /\ assistant = None
  /\ thread = None
  /\ run = NoRun
  /\ created = NoRun
  /\ final_run = NoRun
  /\ messages = <<>>
  /\ remoteStatus = None
  /\ calls = <<>>
  /\ fetched = <<>>
  /\ slept = 0
  /\ stdout = <<>>
  /\ error = None

\* A lookup with a default (os.environ.get) never misses.
KeyPresentDefaulted(env, dot) == TRUE

\* load_dotenv() followed by os.environ['OPENAI_API_KEY']: the key is found
\* when the process environment or the .env file supplies it.
KeyPresent(env, dot) == env \/ dot

\* client = EnergyProfilerClient()
__init__ ==
  /\ pc = "init"
  /\ IF KeyPresent(environ, dotenv)
       THEN pc' = After("init") /\ error' = error
       ELSE Raise("KeyError")
  /\ UNCHANGED <<created, environ, dotenv, data_file, file, assistant, thread, run,
                 final_run, messages, remoteStatus, calls, fetched, slept,
                 stdout>>

\* file = client.create_file()
create_file ==
  /\ pc = "create_file"
  /\ IF ~data_file
       THEN /\ Raise("FileNotFoundError")
            /\ UNCHANGED <<file, calls>>
       ELSE \E ok \in BOOLEAN :
              /\ calls' = Append(calls, Call("files.create", None, None, None, <<>>, ok))
              /\ IF ok
                   THEN /\ \E id \in FileIds : file' = id
                        /\ pc' = After("create_file")
                        /\ error' = error
                   ELSE /\ Raise("APIError")
                        /\ file' = file
  /\ UNCHANGED <<created, environ, dotenv, data_file, assistant, thread, run, final_run,
                 messages, remoteStatus, fetched, slept, stdout>>

\* assistant = client.create_assistant()
create_assistant ==
  /\ pc = "create_assistant"
  /\ \E ok \in BOOLEAN :
       /\ calls' = Append(calls, Call("assistants.create", None, None, None, <<>>, ok))
       /\ IF ok
            THEN /\ \E id \in AssistantIds : assistant' = id
                 /\ pc' = After("create_assistant")
                 /\ error' = error
            ELSE /\ Raise("APIError")
                 /\ assistant' = assistant
  /\ UNCHANGED <<created, environ, dotenv, data_file, file, thread, run, final_run,
                 messages, remoteStatus, fetched, slept, stdout>>

\* thread = client.create_thread()
create_thread ==
  /\ pc = "create_thread"
  /\ \E ok \in BOOLEAN :
       /\ calls' = Append(calls, Call("threads.create", None, None, None, <<>>, ok))
       /\ IF ok
            THEN /\ \E id \in ThreadIds : thread' = id
                 /\ pc' = After("create_thread")
                 /\ error' = error
            ELSE /\ Raise("APIError")
                 /\ thread' = thread
  /\ UNCHANGED <<created, environ, dotenv, data_file, file, assistant, run, final_run,
                 messages, remoteStatus, fetched, slept, stdout>>

\* The two identifiers passed in the wrong order.
MessageThreadSwapped(thread_id, file_id) == file_id

\* The arguments create_message passes on.
MessageThread(thread_id, file_id) == thread_id
MessageFiles(thread_id, file_id) == <<file_id>>

\* client.create_message(thread_id=thread.id, file_id=file.id)
create_message ==
  /\ pc = "create_message"
  /\ \E ok \in BOOLEAN :
       /\ calls' = Append(calls, Call("messages.create", MessageThread(thread, file),
                                      None, None, MessageFiles(thread, file), ok))
       /\ IF ok
            THEN pc' = After("create_message") /\ error' = error
            ELSE Raise("APIError")
  /\ UNCHANGED <<created, environ, dotenv, data_file, file, assistant, thread, run,
                 final_run, messages, remoteStatus, fetched, slept, stdout>>

\* run_thread, line 96: run = runs.create(thread_id, assistant_id)
run_create ==
  /\ pc = "run_create"
  /\ \E ok \in BOOLEAN :
       /\ calls' = Append(calls, Call("runs.create", thread, assistant, None, <<>>, ok))
       /\ IF ok
            THEN /\ \E id \in RunIds, s \in Statuses :
                      /\ run' = [id |-> id, status |-> s]
                      /\ created' = run'
                      /\ remoteStatus' = s
                 /\ pc' = "while"
                 /\ error' = error
            ELSE /\ Raise("APIError")
                 /\ UNCHANGED <<run, created, remoteStatus>>
  /\ UNCHANGED <<environ, dotenv, data_file, file, assistant, thread,
                 final_run, messages, fetched, slept, stdout>>

\* A loop that stops at any status that is no longer pending.
LoopUntilTerminal(status) == status \in {"queued", "in_progress"}
\* A loop that polls only while the run is reported as running.
LoopWhileInProgress(status) == status = "in_progress"
\* A loop that waits for a status the service never reports.
LoopUntilComplete(status) == status # "complete"

\* The loop condition: while run.status != "completed"
LoopContinues(status) == status # Completed

\* run_thread, lines 98 and 103, and the assignment to final_run in the script
while_test ==
  /\ pc = "while"
  /\ IF LoopContinues(run.status)
       THEN pc' = "retrieve" /\ final_run' = final_run
       ELSE pc' = After("run_create") /\ final_run' = run
  /\ UNCHANGED <<created, environ, dotenv, data_file, file, assistant, thread, run,
                 messages, remoteStatus, calls, fetched, slept, stdout, error>>

\* The run id a status fetch asks for: run.id of the record currently held.
RetrieveRunId(r) == r.id

\* run_thread, line 99: run = runs.retrieve(thread_id, run_id=run.id).
\* `run` is rebound to the whole record the service answers with: an id of
\* the service's choosing and the status the run has at that moment.
retrieve ==
  /\ pc = "retrieve"
  /\ Len(fetched) < MaxPolls
  /\ \E ok \in BOOLEAN :
       /\ calls' = Append(calls, Call("runs.retrieve", thread, None,
                                      RetrieveRunId(run), <<>>, ok))
       /\ IF ok
            THEN /\ \E id \in RunIds :
                      run' = [id |-> id, status |-> remoteStatus]
                 /\ fetched' = Append(fetched, run')
                 /\ pc' = "sleep"
                 /\ error' = error
            ELSE /\ Raise("APIError")
                 /\ UNCHANGED <<run, fetched>>
  /\ UNCHANGED <<created, environ, dotenv, data_file, file, assistant, thread,
                 final_run, messages, remoteStatus, slept, stdout>>

\* run_thread, line 100: time.sleep(10)
sleep ==
  /\ pc = "sleep"
  /\ slept' = slept + SleepSeconds
  /\ pc' = "print_status"
  /\ UNCHANGED <<created, environ, dotenv, data_file, file, assistant, thread, run,
                 final_run, messages, remoteStatus, calls, fetched, stdout,
                 error>>

\* Printing the whole record's identifier instead of its status.
PrintedRunId(r) == r.id

\* What line 101 prints.
PrintedStatus(r) == r.status

\* run_thread, line 101: print(run.status)
print_status ==
  /\ pc = "print_status"
  /\ stdout' = Append(stdout, PrintedStatus(run))
  /\ pc' = "while"
  /\ UNCHANGED <<created, environ, dotenv, data_file, file, assistant, thread, run,
                 final_run, messages, remoteStatus, calls, fetched, slept,
                 error>>

\* The service moves the run to another status while run_thread is polling;
\* only changes that a fetch within the polls explored can observe are taken.
remote_step ==
  /\ pc \in {"while", "retrieve", "sleep", "print_status"}
  /\ Len(fetched) < MaxPolls
  /\ \E s \in Statuses \ {remoteStatus} : remoteStatus' = s
  /\ UNCHANGED <<created, pc, environ, dotenv, data_file, file, assistant, thread, run,
                 final_run, messages, calls, fetched, slept, stdout, error>>

\* messages = client.get_messages(thread_id=thread.id)
get_messages ==
  /\ pc = "get_messages"
  /\ \E ok \in BOOLEAN :
       /\ calls' = Append(calls, Call("messages.list", thread, None, None, <<>>, ok))
       /\ IF ok
            THEN /\ \E ms \in MessageLists : messages' = ms
                 /\ pc' = After("get_messages")
                 /\ error' = error
            ELSE /\ Raise("APIError")
                 /\ messages' = messages
  /\ UNCHANGED <<created, environ, dotenv, data_file, file, assistant, thread, run,
                 final_run, remoteStatus, fetched, slept, stdout>>

\* print('Final result:')
print_header ==
  /\ pc = "print_header"
  /\ stdout' = Append(stdout, FinalHeader)
  /\ pc' = After("print_header")
  /\ UNCHANGED <<created, environ, dotenv, data_file, file, assistant, thread, run,
                 final_run, messages, remoteStatus, calls, fetched, slept,
                 error>>

\* result = messages.data[0]
Result(ms) == ms[1]

\* result = messages.data[0] (IndexError on an empty collection); print(result)
print_result ==
  /\ pc = "print_result"
  /\ IF Len(messages) = 0
       THEN /\ Raise("IndexError")
            /\ stdout' = stdout
       ELSE /\ stdout' = Append(stdout, Str(Result(messages)))
            /\ pc' = After("print_result")
            /\ error' = error
  /\ UNCHANGED <<created, environ, dotenv, data_file, file, assistant, thread, run,
                 final_run, messages, remoteStatus, calls, fetched, slept>>

\* One statement of the program.
Program ==
  \/ __init__
  \/ create_file
  \/ create_assistant
  \/ create_thread
  \/ create_message
  \/ run_create
  \/ while_test
  \/ retrieve
  \/ sleep
  \/ print_status
  \/ get_messages
  \/ print_header
  \/ print_result

Next ==
  \/ Program
  \/ remote_step

Spec == Init /\ [][Next]_vars

\* The interpreter always executes the next statement of the script.
LiveSpec == Init /\ [][Next]_vars /\ WF_vars(Program)

\* ------------------------------------------------------------ observations
InLoop == pc \in {"while", "retrieve", "sleep", "print_status"}
Returned == final_run # NoRun
AfterRunThread == pc \in {"get_messages", "print_header", "print_result", "done"}

\* statuses of a sequence of run records
StatusesOf(rs) == [i \in 1..Len(rs) |-> rs[i].status]
\* the status lines of standard output
StatusLines == SelectSeq(stdout, LAMBDA l : l \in Statuses)
\* positions of the calls of one operation
CallsOf(op) == {i \in 1..Len(calls) : calls[i].op = op}
Issued(op) == CallsOf(op) # {}
Printed(l) == \E i \in 1..Len(stdout) : stdout[i] = l
\* a "completed" status has been reported to the program
CompletedObserved ==
  \/ created.status = Completed
  \/ \E i \in 1..Len(fetched) : fetched[i].status = Completed

\* ---------------------------------------------------------------- claims

\* C1: run_thread returns only a run record whose status is "completed";
\* a run last seen in another status (failed, cancelled, ...) is never
\* returned, and messages.list and the final print happen only for a
\* returned, completed run.
C1_OnlyCompletedReturned ==
  /\ Returned => final_run.status = Completed
  /\ (AfterRunThread \/ Issued("messages.list") \/ Printed(FinalHeader))
       => (Returned /\ final_run.status = Completed /\ run.status = Completed)

\* C1 witness: the service reported "failed" and "cancelled" on the way, and
\* the script still finished with a completed run.
C1_Witness ==
  /\ pc = "done"
  /\ \E i, j \in 1..Len(fetched) :
       fetched[i].status = "failed" /\ fetched[j].status = "cancelled"
  /\ final_run.status = Completed

\* C2: when runs.create answers with a status other than "completed" and the
\* k-th status fetch is the first to report "completed", run_thread makes
\* exactly k fetches and returns the k-th fetched record; a sleep lies between
\* any two fetches.  In particular in_progress, in_progress, completed gives
\* exactly three fetches.
C2_PollingCount ==
  /\ (Returned /\ created.status # Completed) =>
       LET k == Len(fetched) IN
         /\ k >= 1
         /\ fetched[k].status = Completed
         /\ \A i \in 1..(k - 1) : fetched[i].status # Completed
         /\ final_run = fetched[k]
         /\ Cardinality(CallsOf("runs.retrieve")) = k
  /\ (Returned /\ created.status # Completed /\ Len(fetched) >= 3
        /\ SubSeq(StatusesOf(fetched), 1, 3) = <<"in_progress", "in_progress", "completed">>)
       => Len(fetched) = 3
  /\ (pc = "retrieve") => slept = 10 * Len(fetched)

\* C2 witness: queued at creation, then in_progress twice, then completed.
C2_Witness ==
  /\ Returned
  /\ created.status = "queued"
  /\ StatusesOf(fetched) = <<"in_progress", "in_progress", "completed">>
  /\ slept = 30

\* C3: as long as no reported status is "completed", run_thread does not
\* return: the script stays inside the loop (or has died of a failed call),
\* and from the loop test the only way on is another status fetch, however
\* many fetches have been made.
C3_NeverReturnsUnlessCompleted ==
  /\ []((created # NoRun /\ ~CompletedObserved) =>
          (~Returned /\ (InLoop \/ pc = "aborted")))
  /\ [][(pc = "while" /\ run.status # Completed /\ pc' # pc) => pc' = "retrieve"]_vars
  /\ []((pc = "retrieve" /\ Len(fetched) < MaxPolls) => ENABLED retrieve)

\* C3 witness: every fetch explored reported failed or cancelled and the
\* script is about to fetch again.
C3_Witness ==
  /\ pc = "retrieve"
  /\ Len(fetched) = MaxPolls
  /\ created.status = "failed"
  /\ \A i \in 1..Len(fetched) : fetched[i].status \in {"failed", "cancelled"}

\* the creation calls the script starts with, in order
CreateOrder == <<"files.create", "assistants.create", "threads.create",
                 "messages.create", "runs.create">>

\* C4: remote calls are issued in the order files.create, assistants.create,
\* threads.create, messages.create, runs.create, then runs.retrieve zero or
\* more times, then messages.list; messages.list comes only after a
\* "completed" status was observed; nothing else (no delete) is ever called;
\* a finished invocation has created exactly one of each and listed once.
C4_CallOrder ==
  /\ \A i \in 1..Len(calls) :
       /\ i <= Len(CreateOrder) => calls[i].op = CreateOrder[i]
       /\ i > Len(CreateOrder) => calls[i].op \in {"runs.retrieve", "messages.list"}
       /\ calls[i].op = "messages.list" => (i = Len(calls) /\ CompletedObserved)
  /\ pc = "done" =>
       /\ \A j \in 1..Len(CreateOrder) :
            Cardinality({i \in CallsOf(CreateOrder[j]) : calls[i].ok}) = 1
       /\ Cardinality(CallsOf("messages.list")) = 1
       /\ Len(calls) = Len(CreateOrder) + Len(fetched) + 1

\* C4 witness: a finished invocation with two status fetches.
C4_Witness ==
  /\ pc = "done"
  /\ Len(fetched) = 2
  /\ Len(calls) = 8

\* C5: a remote call that fails is the last thing the script does: it is not
\* retried, no later call is issued, the script is dead with the error, and
\* the final result is not printed.
C5_FailurePropagates ==
  \A i \in 1..Len(calls) :
    ~calls[i].ok =>
      /\ i = Len(calls)
      /\ pc = "aborted"
      /\ error = "APIError"
      /\ ~Printed(FinalHeader)
      /\ Len(stdout) = Len(fetched)
      /\ (calls[i].op # "messages.list" => ~Issued("messages.list"))
      /\ messages = <<>>

\* C5 witness: a status fetch failed after an earlier one had succeeded.
C5_Witness ==
  /\ pc = "aborted"
  /\ Len(fetched) >= 1
  /\ calls[Len(calls)].op = "runs.retrieve"
  /\ ~calls[Len(calls)].ok

\* the end-to-end scenario: ids f1, a1, t1, run statuses queued then
\* completed, and a listing holding the single assistant message "summary"
EndToEnd ==
  /\ pc = "done"
  /\ file = "f1" /\ assistant = "a1" /\ thread = "t1"
  /\ created.status = "queued"
  /\ StatusesOf(fetched) = <<"completed">>
  /\ messages = <<[role |-> "assistant", content |-> "summary"]>>

\* C6 as stated: in the end-to-end scenario the last line printed is the
\* message's content, "summary".
C6_PrintsContent ==
  EndToEnd => stdout[Len(stdout)] = "summary"

\* C6 amended: in the end-to-end scenario the last line printed is the whole
\* first message record (role and content), after the fetched status and the
\* line "Final result:".
C6_PrintsFirstMessage ==
  EndToEnd => stdout = <<"completed", "Final result:",
                         "{'role': 'assistant', 'content': 'summary'}">>

\* C6 witness: the end-to-end scenario has run to its end.
C6_Witness ==
  /\ EndToEnd
  /\ Len(stdout) = 3

\* the record run_thread holds when it issues its k-th status fetch
HeldAtFetch(k) == IF k = 1 THEN created ELSE fetched[k - 1]
\* the number of status fetches issued up to and including call i
FetchNumber(i) == Cardinality({j \in CallsOf("runs.retrieve") : j <= i})

\* C7 as stated: messages.create goes to the thread id threads.create
\* returned and attaches exactly the file id files.create returned;
\* runs.create uses that thread id and the assistant id assistants.create
\* returned; every runs.retrieve uses that thread id and the id of the run
\* runs.create returned; messages.list asks for that thread id.
C7_RetrieveUsesCreatedId ==
  \A i \in 1..Len(calls) :
    /\ calls[i].op = "messages.create" =>
         /\ thread \in ThreadIds /\ calls[i].thread_id = thread
         /\ file \in FileIds /\ calls[i].file_ids = <<file>>
    /\ calls[i].op = "runs.create" =>
         /\ calls[i].thread_id = thread
         /\ assistant \in AssistantIds /\ calls[i].assistant_id = assistant
    /\ calls[i].op = "runs.retrieve" =>
         /\ calls[i].thread_id = thread
         /\ created.id \in RunIds /\ calls[i].run_id = created.id
    /\ calls[i].op = "messages.list" => calls[i].thread_id = thread

\* C7 amended: as above, except that a runs.retrieve uses the id of the run
\* record received last: the one runs.create returned for the first fetch,
\* the one the previous runs.retrieve returned for every later fetch.
C7_IdentifierFlow ==
  \A i \in 1..Len(calls) :
    /\ calls[i].op = "messages.create" =>
         /\ thread \in ThreadIds /\ calls[i].thread_id = thread
         /\ file \in FileIds /\ calls[i].file_ids = <<file>>
    /\ calls[i].op = "runs.create" =>
         /\ calls[i].thread_id = thread
         /\ assistant \in AssistantIds /\ calls[i].assistant_id = assistant
    /\ calls[i].op = "runs.retrieve" =>
         /\ calls[i].thread_id = thread
         /\ HeldAtFetch(FetchNumber(i)).id \in RunIds
         /\ calls[i].run_id = HeldAtFetch(FetchNumber(i)).id
    /\ calls[i].op = "messages.list" => calls[i].thread_id = thread

\* C7 witness: a finished invocation whose second status fetch asked for an
\* id other than the created run's, because the first answer carried it.
C7_Witness ==
  /\ pc = "done"
  /\ Cardinality(CallsOf("runs.retrieve")) = 2
  /\ created.id = "r1"
  /\ fetched[1].id = "r2"
  /\ calls[Len(CreateOrder) + 2].run_id = "r2"

\* no remote call has failed
NoCallFailed == \A i \in 1..Len(calls) : calls[i].ok

\* C8: if the run's status on the service becomes "completed" and stays so
\* and no remote call fails, the script eventually returns from run_thread,
\* issues messages.list and prints the final result.
C8_EventuallyPrints ==
  ( /\ <>[](remoteStatus = Completed)
    /\ []NoCallFailed )
  => <>( /\ pc = "done"
         /\ Returned
         /\ Issued("messages.list")
         /\ Len(stdout) = Len(fetched) + 2
         /\ stdout[Len(stdout) - 1] = FinalHeader )

\* The polling part of C8 on its own: with a listing that holds at least one
\* message, a run that stays "completed" and no failed call, the script
\* reaches its end with the result printed.
PrintsWhenListingNonEmpty ==
  ( /\ <>[](remoteStatus = Completed)
    /\ []NoCallFailed
    /\ [](pc = "print_result" => Len(messages) > 0) )
  => <>( /\ pc = "done"
         /\ Returned
         /\ Issued("messages.list")
         /\ Len(stdout) = Len(fetched) + 2
         /\ stdout[Len(stdout) - 1] = FinalHeader )

\* C9: when neither the process environment nor the .env file supplies the
\* API key, constructing the client raises KeyError and no remote call is
\* ever issued.
C9_MissingKeyFatal ==
  (~environ /\ ~dotenv /\ pc # "init") =>
    /\ pc = "aborted"
    /\ error = "KeyError"
    /\ calls = <<>>
    /\ stdout = <<>>

\* C9 witness: the script died of the missing key.
C9_Witness ==
  /\ ~environ /\ ~dotenv
  /\ pc = "aborted"
  /\ error = "KeyError"

\* C10: an iteration is fetch, then sleep, then print: between iterations and
\* on return the number of sleeps and of printed statuses equal the number of
\* fetches, the printed statuses are the fetched ones in order (so the status
\* runs.create answered with is never printed), and a run created as
\* "completed" returns with no fetch, no sleep and nothing printed.
C10_PollTick ==
  /\ (pc = "sleep") =>
       /\ slept = 10 * (Len(fetched) - 1)
       /\ StatusLines = SubSeq(StatusesOf(fetched), 1, Len(fetched) - 1)
  /\ (pc = "print_status") =>
       /\ slept = 10 * Len(fetched)
       /\ StatusLines = SubSeq(StatusesOf(fetched), 1, Len(fetched) - 1)
  /\ (pc = "while" \/ Returned) =>
       /\ slept = 10 * Len(fetched)
       /\ StatusLines = StatusesOf(fetched)
       /\ Len(StatusLines) = Len(fetched)
  /\ (Returned /\ created.status = Completed) =>
       /\ Len(fetched) = 0
       /\ slept = 0
       /\ StatusLines = <<>>

\* C10 witness: returned after two fetches, with a creation status that
\* differs from everything printed.
C10_Witness ==
  /\ Returned
  /\ created.status = "queued"
  /\ StatusLines = <<"failed", "completed">>
  /\ slept = 20
====
